---------------------------- MODULE Spec2Model ----------------------------
(***************************************************************************)
(* A model of the job-tracking application (src/app.py): the URL-to-record *)
(* extraction pipeline (fetch_html, extract_jsonld_jobposting,             *)
(* parse_from_jsonld, parse_generic_meta, the keyword classifiers,         *)
(* normalize_job_record, build_job_from_url) and the persistence helpers   *)
(* over the jobs table (insert_job, delete_job).                           *)
(*                                                                         *)
(* Text is modelled as a sequence of one-character strings, so that        *)
(* trimming, substring search, pattern matching and date parsing are       *)
(* computed character by character as the code computes them.  A Python   *)
(* value is a record with a type tag t and one payload field per type.     *)
(***************************************************************************)
EXTENDS Integers, Sequences, FiniteSets, TLC

VARIABLES
    npc,      \* normalizer harness: "call" | "once" | "twice"
    nraw,     \* the mapping handed to normalize_job_record
    nres,     \* outcome of normalize_job_record(nraw)
    nres2,    \* outcome of normalize_job_record applied to nres's record
    ipc,      \* classifier harness: "call" | "done"
    ititle,   \* title_text handed to infer_experience_level
    idesc,    \* description_text handed to infer_experience_level (or None)
    ilevel,   \* the level infer_experience_level returned
    xpc,      \* extractor harness: "call" | "done"
    xdoc,     \* the document handed to extract_jsonld_jobposting
    xres,     \* what extract_jsonld_jobposting returned
    bpc,      \* build_job_from_url: the line the call has reached
    burl,     \* its argument
    bhtml,    \* html: the fetched page
    bfinal,   \* final_url
    berr,     \* fetch_err: None, or the error text
    brecord,  \* record
    bjp,      \* jp
    bparsed,  \* parsed
    bresult,  \* the outcome of the call: the record returned, or an exception
    bcalls,   \* history: the functions the call has invoked, in order
    borigin,  \* history: the stage that wrote each field of record
    jobs,     \* the rows of table jobs
    now,      \* the clock CURRENT_TIMESTAMP reads
    dbn,      \* history: how many insert_job and delete_job calls were made
    dbop,     \* history: the last call, "insert" | "delete" | "list" | "none"
    dbrow,    \* history: the row handed to the last insert_job
    dbid,     \* history: the id handed to the last delete_job
    dbret,    \* what the last insert_job or delete_job returned
    dbseq,    \* history: the ids of the stored rows, in the order of insertion
    dbsearch, \* the search text handed to the last list_jobs
    dbstatuses, \* the statuses handed to the last list_jobs
    dblist,   \* the rows the last list_jobs returned, in order
    spc,      \* per session: the line its insert_job call has reached
    srow,     \* per session: the row handed to its insert_job call
    sbefore,  \* per session: before, the count read ahead of the INSERT
    sadded,   \* history, per session: its INSERT added a row
    signored, \* history, per session: its INSERT met a row with the url
    sret      \* per session: what its insert_job call returned

normVars  == <<npc, nraw, nres, nres2>>
inferVars == <<ipc, ititle, idesc, ilevel>>
extrVars  == <<xpc, xdoc, xres>>
buildVars == <<bpc, burl, bhtml, bfinal, berr, brecord, bjp, bparsed, bresult,
               bcalls, borigin>>

dbVars    == <<jobs, now, dbn, dbop, dbrow, dbid, dbret, dbseq, dbsearch,
               dbstatuses, dblist>>

concVars  == <<spc, srow, sbefore, sadded, signored, sret>>

vars == <<normVars, inferVars, extrVars, buildVars, dbVars, concVars>>

\* what the actions of one component leave alone
notNorm  == <<inferVars, extrVars, buildVars, dbVars, concVars>>
notInfer == <<normVars, extrVars, buildVars, dbVars, concVars>>
notExtr  == <<normVars, inferVars, buildVars, dbVars, concVars>>
notBuild == <<normVars, inferVars, extrVars, dbVars, concVars>>
notDb    == <<normVars, inferVars, extrVars, buildVars, concVars>>
notConc  == <<normVars, inferVars, extrVars, buildVars>>

-----------------------------------------------------------------------------
(* Python values *)

PyVal(t, n, s, items, d) == [t |-> t, n |-> n, s |-> s, items |-> items, d |-> d]
PyNone       == PyVal("None", 0, <<>>, <<>>, <<>>)
PyInt(n)     == PyVal("int", n, <<>>, <<>>, <<>>)
PyStr(s)     == PyVal("str", 0, s, <<>>, <<>>)
PyList(l)    == PyVal("list", 0, <<>>, l, <<>>)
\* a dict is its items in order: <<[k |-> key, v |-> value], ...>>, keys distinct
PyDict(d)    == PyVal("dict", 0, <<>>, <<>>, d)
EmptyStr     == PyStr(<<>>)

\* Python truth value: None, 0, "", [] and {} are false
Truthy(v) ==
    CASE v.t = "None" -> FALSE
      [] v.t = "int"  -> v.n # 0
      [] v.t = "str"  -> v.s # <<>>
      [] v.t = "list" -> v.items # <<>>
      [] v.t = "dict" -> v.d # <<>>
      [] OTHER        -> TRUE

\* a or b
PyOr(a, b) == IF Truthy(a) THEN a ELSE b

\* mapping.get(k, default) on a mapping held as a function
MapGet(m, k, default) == IF k \in DOMAIN m THEN m[k] ELSE default

-----------------------------------------------------------------------------
(* Characters and text *)

DigitChars == <<"0", "1", "2", "3", "4", "5", "6", "7", "8", "9">>
UpperChars == <<"A", "B", "C", "D", "E", "F", "G", "H", "I", "J", "K", "L", "M",
                "N", "O", "P", "Q", "R", "S", "T", "U", "V", "W", "X", "Y", "Z">>
LowerChars == <<"a", "b", "c", "d", "e", "f", "g", "h", "i", "j", "k", "l", "m",
                "n", "o", "p", "q", "r", "s", "t", "u", "v", "w", "x", "y", "z">>

IsDigit(c)  == \E i \in 1..10 : DigitChars[i] = c
DigitVal(c) == (CHOOSE i \in 1..10 : DigitChars[i] = c) - 1
IsSpace(c)  == c \in {" ", "\t", "\n", "\r", "\f"}

\* str.lower(), one character
LowerCh(c) ==
    IF \E i \in 1..26 : UpperChars[i] = c
    THEN LowerChars[CHOOSE i \in 1..26 : UpperChars[i] = c]
    ELSE c

\* str.lower()
lower(s) == [i \in 1..Len(s) |-> LowerCh(s[i])]

RECURSIVE lstrip(_)
lstrip(s) == IF s # <<>> /\ IsSpace(Head(s)) THEN lstrip(Tail(s)) ELSE s

RECURSIVE rstrip(_)
rstrip(s) ==
    IF s # <<>> /\ IsSpace(s[Len(s)]) THEN rstrip(SubSeq(s, 1, Len(s) - 1)) ELSE s

\* str.strip()
strip(s) == rstrip(lstrip(s))

\* s[i:] with a 1-based first index
From(s, i) == SubSeq(s, i, Len(s))

\* "needle in hay"
Contains(hay, needle) ==
    \E i \in 1..(Len(hay) - Len(needle) + 1) :
        SubSeq(hay, i, i + Len(needle) - 1) = needle

\* the concatenation of a sequence of sequences
RECURSIVE Concat(_)
Concat(seqs) == IF seqs = <<>> THEN <<>> ELSE Head(seqs) \o Concat(Tail(seqs))

RECURSIVE ToInt(_)
ToInt(s) ==
    IF s = <<>> THEN 0
    ELSE 10 * ToInt(SubSeq(s, 1, Len(s) - 1)) + DigitVal(s[Len(s)])

\* the decimal digit of n in 0..9
DigitOf(n) == DigitChars[n + 1]

Pad2(n) == <<DigitOf(n \div 10), DigitOf(n % 10)>>
Pad4(n) == <<DigitOf(n \div 1000), DigitOf((n \div 100) % 10),
             DigitOf((n \div 10) % 10), DigitOf(n % 10)>>

-----------------------------------------------------------------------------
(* The structured-data extractor *)

\* d.get(key) on a dict held as its items
RECURSIVE DictGet(_, _)
DictGet(d, key) ==
    IF d = <<>> THEN PyNone
    ELSE IF Head(d).k = key THEN Head(d).v
    ELSE DictGet(Tail(d), key)

\* key in d
DictHas(d, key) == \E i \in 1..Len(d) : d[i].k = key

JobPostingType == PyStr(<<"J","o","b","P","o","s","t","i","n","g">>)

\* isinstance(v, dict) and v.get("@type") == "JobPosting"
IsJobPosting(v) == v.t = "dict" /\ DictGet(v.d, "@type") = JobPostingType

\* for g in obj["@graph"]: the first member that is a JobPosting, else None
RECURSIVE ScanGraph(_)
ScanGraph(members) ==
    IF members = <<>> THEN PyNone
    ELSE IF IsJobPosting(Head(members)) THEN Head(members)
    ELSE ScanGraph(Tail(members))

\* the members of obj's @graph where it is a list, else none
GraphOf(obj) ==
    IF DictHas(obj.d, "@graph") /\ DictGet(obj.d, "@graph").t = "list"
    THEN DictGet(obj.d, "@graph").items
    ELSE <<>>

\* for obj in candidates, with the @graph members scanned before the object
ScanCandidatesGraphFirst(candidates) ==
    LET RECURSIVE scan(_)
        scan(cs) ==
            IF cs = <<>> THEN PyNone
            ELSE LET obj == Head(cs) IN
                 IF obj.t # "dict" THEN scan(Tail(cs))
                 ELSE IF ScanGraph(GraphOf(obj)) # PyNone
                      THEN ScanGraph(GraphOf(obj))
                 ELSE IF IsJobPosting(obj) THEN obj
                 ELSE scan(Tail(cs))
    IN scan(candidates)

\* for obj in candidates: the object itself, then the members of its @graph
RECURSIVE ScanCandidates(_)
ScanCandidates(candidates) ==
    IF candidates = <<>> THEN PyNone
    ELSE LET obj == Head(candidates) IN
         IF obj.t # "dict" THEN ScanCandidates(Tail(candidates))
         ELSE IF IsJobPosting(obj) THEN obj
         ELSE IF ScanGraph(GraphOf(obj)) # PyNone THEN ScanGraph(GraphOf(obj))
         ELSE ScanCandidates(Tail(candidates))

\* A script block of type application/ld+json, as json.loads sees it:
\*   kind "empty":     tag.string is None, so "{}" is parsed
\*   kind "malformed": json.loads raises
\*   kind "json":      json.loads returns data
EmptyBlock     == [kind |-> "empty", data |-> PyNone]
MalformedBlock == [kind |-> "malformed", data |-> PyNone]
JsonBlock(v)   == [kind |-> "json", data |-> v]

\* candidates = data if isinstance(data, list) else [data]
CandidatesOf(block) ==
    LET data == IF block.kind = "empty" THEN PyDict(<<>>) ELSE block.data IN
    IF data.t = "list" THEN data.items ELSE <<data>>

\* for tag in soup.find_all("script", type="application/ld+json")
RECURSIVE ScanBlocks(_)
ScanBlocks(blocks) ==
    IF blocks = <<>> THEN PyNone
    ELSE IF Head(blocks).kind = "malformed" THEN ScanBlocks(Tail(blocks))
    ELSE IF ScanCandidates(CandidatesOf(Head(blocks))) # PyNone
         THEN ScanCandidates(CandidatesOf(Head(blocks)))
    ELSE ScanBlocks(Tail(blocks))

\* A document is what BeautifulSoup makes of the fetched text: it either
\* rejects the markup (the outer except returns None) or yields the ld+json
\* script blocks in document order.
extract_jsonld_jobposting(doc) ==
    IF doc.rejected THEN PyNone ELSE ScanBlocks(doc.blocks)

-----------------------------------------------------------------------------
(* Calendar dates: datetime.strptime and date.isoformat *)

IsLeap(y) == (y % 4 = 0 /\ y % 100 # 0) \/ y % 400 = 0

DaysInMonth(y, m) ==
    CASE m \in {4, 6, 9, 11} -> 30
      [] m = 2               -> IF IsLeap(y) THEN 29 ELSE 28
      [] OTHER               -> 31

\* datetime(y, m, d) is constructed rather than raising ValueError
ValidDate(y, m, d) ==
    /\ y \in 1..9999
    /\ m \in 1..12
    /\ d \in 1..DaysInMonth(y, m)

\* the %b names of the C locale, lower case
AbbrNames == <<
    <<"j","a","n">>, <<"f","e","b">>, <<"m","a","r">>, <<"a","p","r">>,
    <<"m","a","y">>, <<"j","u","n">>, <<"j","u","l">>, <<"a","u","g">>,
    <<"s","e","p">>, <<"o","c","t">>, <<"n","o","v">>, <<"d","e","c">> >>

\* the %B names of the C locale, lower case
FullNames == <<
    <<"j","a","n","u","a","r","y">>, <<"f","e","b","r","u","a","r","y">>,
    <<"m","a","r","c","h">>, <<"a","p","r","i","l">>, <<"m","a","y">>,
    <<"j","u","n","e">>, <<"j","u","l","y">>, <<"a","u","g","u","s","t">>,
    <<"s","e","p","t","e","m","b","e","r">>, <<"o","c","t","o","b","e","r">>,
    <<"n","o","v","e","m","b","e","r">>, <<"d","e","c","e","m","b","e","r">> >>

\* the month name is matched ignoring case
StartsWithCI(s, p) ==
    Len(s) >= Len(p) /\ \A i \in 1..Len(p) : LowerCh(s[i]) = p[i]

NoDate == [ok |-> FALSE, y |-> 0, m |-> 0, d |-> 0]

\* %d: 3[0-1] | [1-2]\d | 0[1-9] | [1-9], then the literal comma
DayThenComma(r) ==
    IF /\ Len(r) >= 3 /\ IsDigit(r[1]) /\ IsDigit(r[2]) /\ r[3] = ","
       /\ ToInt(SubSeq(r, 1, 2)) \in 1..31
    THEN [ok |-> TRUE, d |-> ToInt(SubSeq(r, 1, 2)), rest |-> From(r, 4)]
    ELSE IF Len(r) >= 2 /\ IsDigit(r[1]) /\ r[1] # "0" /\ r[2] = ","
    THEN [ok |-> TRUE, d |-> DigitVal(r[1]), rest |-> From(r, 3)]
    ELSE [ok |-> FALSE, d |-> 0, rest |-> <<>>]

\* the text after the month name: \s+ %d , \s+ %Y and nothing more
AfterMonth(r, m) ==
    IF r = <<>> \/ ~IsSpace(Head(r)) THEN NoDate
    ELSE LET dc == DayThenComma(lstrip(r)) IN
         IF ~dc.ok \/ dc.rest = <<>> \/ ~IsSpace(Head(dc.rest)) THEN NoDate
         ELSE LET yr == lstrip(dc.rest) IN
              IF Len(yr) = 4 /\ (\A i \in 1..4 : IsDigit(yr[i]))
                 /\ ValidDate(ToInt(yr), m, dc.d)
              THEN [ok |-> TRUE, y |-> ToInt(yr), m |-> m, d |-> dc.d]
              ELSE NoDate

\* datetime.strptime(s, "<month name> %d, %Y") with the given month names;
\* ok is FALSE where strptime raises ValueError
strptime(s, names) ==
    IF \E m \in 1..12 : StartsWithCI(s, names[m]) /\ AfterMonth(From(s, Len(names[m]) + 1), m).ok
    THEN LET m == CHOOSE k \in 1..12 :
                    StartsWithCI(s, names[k]) /\ AfterMonth(From(s, Len(names[k]) + 1), k).ok
         IN AfterMonth(From(s, Len(names[m]) + 1), m)
    ELSE NoDate

\* str(n) for n >= 0
RECURSIVE Dec(_)
Dec(n) == IF n < 10 THEN <<DigitOf(n)>> ELSE Dec(n \div 10) \o <<DigitOf(n % 10)>>

\* a date rendered without zero padding, as f"{y}-{m}-{d}" would
isoformat_unpadded(dt) == Dec(dt.y) \o <<"-">> \o Dec(dt.m) \o <<"-">> \o Dec(dt.d)

\* date.isoformat(): zero-padded YYYY-MM-DD
isoformat(dt) == Pad4(dt.y) \o <<"-">> \o Pad2(dt.m) \o <<"-">> \o Pad2(dt.d)

\* re.fullmatch(r"\d{4}-\d{2}-\d{2}", s)
IsoShape(s) ==
    /\ Len(s) = 10
    /\ \A i \in 1..10 : IF i \in {5, 8} THEN s[i] = "-" ELSE IsDigit(s[i])

-----------------------------------------------------------------------------
(* Heuristic inference: the keyword classifiers *)

InternWords == <<
    <<"i","n","t","e","r","n">>,
    <<"i","n","t","e","r","n","s","h","i","p">>,
    <<"c","o","-","o","p">>,
    <<"c","o"," ","o","p">>,
    <<"c","o","o","p">> >>

NewGradWords == <<
    <<"n","e","w"," ","g","r","a","d">>,
    <<"n","e","w","-","g","r","a","d">>,
    <<"g","r","a","d","u","a","t","e"," ","p","r","o","g","r","a","m">> >>

EntryWords == <<
    <<"e","n","t","r","y"," ","l","e","v","e","l">>,
    <<"e","n","t","r","y","-","l","e","v","e","l">>,
    <<"j","u","n","i","o","r">>,
    <<"j","r",".">> >>

SeniorWords == <<
    <<"s","e","n","i","o","r">>,
    <<"s","r",".">>,
    <<"s","t","a","f","f">>,
    <<"p","r","i","n","c","i","p","a","l">>,
    <<"l","e","a","d">> >>

\* any(k in text for k in kws)
AnyIn(text, kws) == \E i \in 1..Len(kws) : Contains(text, kws[i])

\* f"{t} {d}" of the two lowered arguments, each defaulting to ""
LevelText(title_text, description_text) ==
    lower(PyOr(title_text, EmptyStr).s) \o <<" ">>
        \o lower(PyOr(description_text, EmptyStr).s)

LvIntern  == <<"I","n","t","e","r","n">>
LvNewGrad == <<"N","e","w"," ","G","r","a","d">>
LvEntry   == <<"E","n","t","r","y">>
LvSenior  == <<"S","e","n","i","o","r","+">>

\* the classifier with the New Grad test ahead of the Intern test
infer_experience_level_reordered(title_text, description_text) ==
    LET text == LevelText(title_text, description_text) IN
    IF AnyIn(text, NewGradWords) THEN LvNewGrad
    ELSE IF AnyIn(text, InternWords) THEN LvIntern
    ELSE IF AnyIn(text, EntryWords) THEN LvEntry
    ELSE IF AnyIn(text, SeniorWords) THEN LvSenior
    ELSE <<>>

infer_experience_level(title_text, description_text) ==
    LET text == LevelText(title_text, description_text) IN
    IF AnyIn(text, InternWords) THEN LvIntern
    ELSE IF AnyIn(text, NewGradWords) THEN LvNewGrad
    ELSE IF AnyIn(text, EntryWords) THEN LvEntry
    ELSE IF AnyIn(text, SeniorWords) THEN LvSenior
    ELSE <<>>

FullTimeWords == <<
    <<"f","u","l","l"," ","t","i","m","e">>,
    <<"f","u","l","l","-","t","i","m","e">>,
    <<"f","u","l","l","t","i","m","e">> >>

PartTimeWords == <<
    <<"p","a","r","t"," ","t","i","m","e">>,
    <<"p","a","r","t","-","t","i","m","e">>,
    <<"p","a","r","t","t","i","m","e">> >>

\* infer_job_type(text) on text or None
infer_job_type(text) ==
    LET t == lower(PyOr(text, EmptyStr).s) IN
    IF AnyIn(t, FullTimeWords) THEN <<"F","u","l","l","-","t","i","m","e">>
    ELSE IF AnyIn(t, PartTimeWords) THEN <<"P","a","r","t","-","t","i","m","e">>
    ELSE IF Contains(t, <<"c","o","n","t","r","a","c","t">>) THEN <<"C","o","n","t","r","a","c","t">>
    ELSE IF Contains(t, <<"i","n","t","e","r","n">>) \/ Contains(t, <<"i","n","t","e","r","n","s","h","i","p">>)
         THEN <<"I","n","t","e","r","n","s","h","i","p">>
    ELSE IF Contains(t, <<"t","e","m","p","o","r","a","r","y">>) THEN <<"T","e","m","p","o","r","a","r","y">>
    ELSE <<>>

-----------------------------------------------------------------------------
(* Salary extraction: re.search of                                         *)
(*   \$?\s?\d{2,3}(?:,\d{3})?(?:\s*[-–]\s*\$?\d{2,3}(?:,\d{3})?)?          *)
(*   \s*(?:k|K|/yr|per year|per hour|/hr|hour|annually)?                   *)
(* Everything after the first number is optional, so the greedy choice at  *)
(* each step is the match.  Indices are 1-based; an end is the index after *)
(* the last matched character, 0 where there is no match.                  *)

DigitAt(t, j) == j >= 1 /\ j <= Len(t) /\ IsDigit(t[j])

\* \d{2,3}, greedy: how many digits it takes at j
DigitsAt(t, j) ==
    IF DigitAt(t, j) /\ DigitAt(t, j + 1)
    THEN (IF DigitAt(t, j + 2) THEN 3 ELSE 2)
    ELSE 0

\* \d{2,3}(?:,\d{3})? at j
NumEnd(t, j) ==
    LET e == j + DigitsAt(t, j) IN
    IF DigitsAt(t, j) = 0 THEN 0
    ELSE IF /\ e <= Len(t) /\ t[e] = ","
            /\ DigitAt(t, e + 1) /\ DigitAt(t, e + 2) /\ DigitAt(t, e + 3)
         THEN e + 4
    ELSE e

\* \s* at j
RECURSIVE SkipSpace(_, _)
SkipSpace(t, j) ==
    IF j <= Len(t) /\ IsSpace(t[j]) THEN SkipSpace(t, j + 1) ELSE j

\* the hyphen; the en dash of the pattern is not among the characters of the
\* texts modelled
IsDash(c) == c = "-"

\* (?:\s*[-–]\s*\$?\d{2,3}(?:,\d{3})?)? at e
RangeEnd(t, e) ==
    LET d == SkipSpace(t, e)
        q == SkipSpace(t, d + 1)
        n == IF q <= Len(t) /\ t[q] = "$" /\ NumEnd(t, q + 1) # 0 THEN q + 1 ELSE q
    IN IF d <= Len(t) /\ IsDash(t[d]) /\ NumEnd(t, n) # 0 THEN NumEnd(t, n) ELSE e

SalaryUnits == <<
    <<"k">>, <<"K">>, <<"/","y","r">>, <<"p","e","r"," ","y","e","a","r">>, <<"p","e","r"," ","h","o","u","r">>,
    <<"/","h","r">>, <<"h","o","u","r">>, <<"a","n","n","u","a","l","l","y">> >>

StartsAt(t, j, u) == j + Len(u) - 1 <= Len(t) /\ SubSeq(t, j, j + Len(u) - 1) = u

\* (?:k|K|/yr|per year|per hour|/hr|hour|annually)? at j: the first that fits
UnitEnd(t, j) ==
    IF \E i \in 1..Len(SalaryUnits) : StartsAt(t, j, SalaryUnits[i])
    THEN LET i == CHOOSE i \in 1..Len(SalaryUnits) :
                    /\ StartsAt(t, j, SalaryUnits[i])
                    /\ \A h \in 1..(i - 1) : ~StartsAt(t, j, SalaryUnits[h])
         IN j + Len(SalaryUnits[i])
    ELSE j

\* \$?\s? at i: where the first number starts if the pattern matches at i
FirstNumberAt(t, i) ==
    IF i <= Len(t) /\ t[i] = "$" /\ i + 1 <= Len(t) /\ IsSpace(t[i + 1])
       /\ NumEnd(t, i + 2) # 0 THEN i + 2
    ELSE IF i <= Len(t) /\ t[i] = "$" /\ NumEnd(t, i + 1) # 0 THEN i + 1
    ELSE IF i <= Len(t) /\ IsSpace(t[i]) /\ NumEnd(t, i + 1) # 0 THEN i + 1
    ELSE IF NumEnd(t, i) # 0 THEN i
    ELSE 0

\* the end of the match of the whole pattern at i
MatchEnd(t, i) ==
    IF FirstNumberAt(t, i) = 0 THEN 0
    ELSE UnitEnd(t, SkipSpace(t, RangeEnd(t, NumEnd(t, FirstNumberAt(t, i)))))

\* extract_salary(text) on text or None
extract_salary(text) ==
    LET t == PyOr(text, EmptyStr).s IN
    IF \E i \in 1..Len(t) : MatchEnd(t, i) # 0
    THEN LET i == CHOOSE i \in 1..Len(t) :
                    MatchEnd(t, i) # 0 /\ \A h \in 1..(i - 1) : MatchEnd(t, h) = 0
         IN strip(SubSeq(t, i, MatchEnd(t, i) - 1))
    ELSE <<>>

-----------------------------------------------------------------------------
(* The generic fallback extractor *)

\* the index at which sep first occurs in s, 0 if it does not
FirstIndex(s, sep) ==
    IF Contains(s, sep)
    THEN CHOOSE i \in 1..Len(s) :
            /\ StartsAt(s, i, sep)
            /\ \A h \in 1..(i - 1) : ~StartsAt(s, h, sep)
    ELSE 0

\* s.split(sep)
RECURSIVE Split(_, _)
Split(s, sep) ==
    IF FirstIndex(s, sep) = 0 THEN <<s>>
    ELSE <<SubSeq(s, 1, FirstIndex(s, sep) - 1)>>
             \o Split(From(s, FirstIndex(s, sep) + Len(sep)), sep)

\* sep.join(parts)
RECURSIVE Join(_, _)
Join(parts, sep) ==
    IF parts = <<>> THEN <<>>
    ELSE IF Len(parts) = 1 THEN parts[1]
    ELSE parts[1] \o sep \o Join(Tail(parts), sep)

TitleSeparator == <<" ", "-", " ">>

\* the keys of the partial record the two extractors fill
PartialKeys == {"title", "company", "location", "salary", "posted_date",
                "deadline", "job_type"}

EmptyPartial == [k \in PartialKeys |-> EmptyStr]

\* A page is what BeautifulSoup makes of the fetched text: rejected, or
\*   blocks:  the ld+json script blocks
\*   title:   soup.title.string, None without a <title> or without one string
\*   ogTitle, ogSite, metaDesc: the content attribute of the meta tag, None
\*            without the tag or without the attribute
parse_generic_meta(page) ==
    IF page.rejected THEN EmptyPartial
    ELSE LET title_tag == strip(PyOr(page.title, EmptyStr).s)
             title0 == IF page.ogTitle.t = "str" THEN strip(page.ogTitle.s)
                       ELSE title_tag
             site == IF page.ogSite.t = "str" THEN strip(page.ogSite.s) ELSE <<>>
             parts == Split(title0, TitleSeparator)
             splits == Contains(title0, TitleSeparator) /\ site = <<>>
                       /\ Len(parts) >= 2
             desc_text == IF page.metaDesc.t = "str" THEN page.metaDesc ELSE EmptyStr
         IN [k \in PartialKeys |->
               PyStr(CASE k = "title" ->
                            IF splits
                            THEN strip(Join(SubSeq(parts, 1, Len(parts) - 1), TitleSeparator))
                            ELSE title0
                       [] k = "company" ->
                            IF splits THEN strip(parts[Len(parts)]) ELSE site
                       [] k = "salary"   -> extract_salary(desc_text)
                       [] k = "job_type" -> infer_job_type(desc_text)
                       [] OTHER          -> <<>>)]

-----------------------------------------------------------------------------
(* The structured-data mapper *)

\* str(v) of a scalar: the decimal form of a number, the text of a string
StrOf(v) ==
    CASE v.t = "int"  -> IF v.n < 0 THEN <<"-">> \o Dec(0 - v.n) ELSE Dec(v.n)
      [] v.t = "str"  -> v.s
      [] v.t = "None" -> <<"N","o","n","e">>
      [] OTHER        -> <<>>

\* ", ".join(p for p in parts if p)
RECURSIVE JoinNonEmpty(_)
JoinNonEmpty(parts) ==
    IF parts = <<>> THEN <<>>
    ELSE IF Head(parts) = <<>> THEN JoinNonEmpty(Tail(parts))
    ELSE IF JoinNonEmpty(Tail(parts)) = <<>> THEN Head(parts)
    ELSE Head(parts) \o <<",", " ">> \o JoinNonEmpty(Tail(parts))

\* the str(x).strip() of each scalar element of a list, in order
RECURSIVE ScalarParts(_)
ScalarParts(items) ==
    IF items = <<>> THEN <<>>
    ELSE IF Head(items).t \in {"str", "int"}
         THEN <<strip(StrOf(Head(items)))>> \o ScalarParts(Tail(items))
    ELSE ScalarParts(Tail(items))

\* _as_text: None -> "", number -> str, str -> stripped, list -> joined
_as_text(v) ==
    CASE v.t = "None" -> <<>>
      [] v.t = "int"  -> StrOf(v)
      [] v.t = "str"  -> strip(v.s)
      [] v.t = "list" -> JoinNonEmpty(ScalarParts(v.items))
      [] OTHER        -> <<>>

\* _get_company
GetCompany(j) ==
    LET h == DictGet(j.d, "hiringOrganization") IN
    IF h.t = "dict" THEN _as_text(DictGet(h.d, "name")) ELSE _as_text(h)

\* _get_location
GetLocation(j) ==
    LET loc0 == DictGet(j.d, "jobLocation")
        loc  == IF loc0.t = "list" /\ loc0.items # <<>> THEN loc0.items[1] ELSE loc0
        addr == IF loc.t = "dict" THEN DictGet(loc.d, "address") ELSE PyNone
    IN IF loc.t = "dict" /\ addr.t = "dict"
       THEN JoinNonEmpty(<<_as_text(DictGet(addr.d, "addressLocality")),
                           _as_text(DictGet(addr.d, "addressRegion")),
                           _as_text(DictGet(addr.d, "addressCountry"))>>)
       ELSE _as_text(loc)

\* _salary; the amount, where there is one, is a scalar
GetSalary(j) ==
    LET pay == DictGet(j.d, "baseSalary")
        val == IF pay.t = "dict" THEN DictGet(pay.d, "value") ELSE PyNone
        amount == PyOr(DictGet(val.d, "value"),
                       PyOr(DictGet(val.d, "minValue"), DictGet(val.d, "maxValue")))
        unit == _as_text(DictGet(val.d, "unitText"))
        currency == _as_text(PyOr(DictGet(val.d, "currency"), DictGet(pay.d, "currency")))
    IN IF pay.t = "dict" /\ val.t = "dict" /\ amount # PyNone /\ amount # EmptyStr
       THEN strip(currency \o StrOf(amount) \o <<" ">> \o unit)
       ELSE IF pay.t = "dict" /\ _as_text(DictGet(pay.d, "currency")) # <<>>
       THEN _as_text(DictGet(pay.d, "currency"))
       ELSE _as_text(pay)

\* str.replace("Z", "+00:00")
RECURSIVE ReplaceZ(_)
ReplaceZ(s) ==
    IF s = <<>> THEN <<>>
    ELSE IF Head(s) = "Z" THEN <<"+","0","0",":","0","0">> \o ReplaceZ(Tail(s))
    ELSE <<Head(s)>> \o ReplaceZ(Tail(s))

TwoDigitsBelow(s, i, limit) ==
    /\ Len(s) >= i + 1 /\ IsDigit(s[i]) /\ IsDigit(s[i + 1])
    /\ ToInt(SubSeq(s, i, i + 1)) < limit

\* a UTC offset (+|-)HH:MM
IsOffset(s) ==
    /\ Len(s) = 6 /\ s[1] \in {"+", "-"} /\ s[4] = ":"
    /\ TwoDigitsBelow(s, 2, 24) /\ TwoDigitsBelow(s, 5, 60)

\* a time HH:MM or HH:MM:SS, then nothing or a UTC offset
IsTimeAndOffset(s) ==
    /\ TwoDigitsBelow(s, 1, 24) /\ Len(s) >= 5 /\ s[3] = ":" /\ TwoDigitsBelow(s, 4, 60)
    /\ \/ Len(s) = 5
       \/ IsOffset(From(s, 6))
       \/ /\ Len(s) >= 8 /\ s[6] = ":" /\ TwoDigitsBelow(s, 7, 60)
          /\ (Len(s) = 8 \/ IsOffset(From(s, 9)))

\* datetime.fromisoformat on the extended format YYYY-MM-DD[*HH:MM[:SS][+HH:MM]]
\* without fractional seconds; ok is FALSE where it raises ValueError
fromisoformat(s) ==
    IF /\ Len(s) >= 10
       /\ IsoShape(SubSeq(s, 1, 10))
       /\ ValidDate(ToInt(SubSeq(s, 1, 4)), ToInt(SubSeq(s, 6, 7)), ToInt(SubSeq(s, 9, 10)))
       /\ (Len(s) = 10 \/ (Len(s) >= 12 /\ IsTimeAndOffset(From(s, 12))))
    THEN [ok |-> TRUE, y |-> ToInt(SubSeq(s, 1, 4)), m |-> ToInt(SubSeq(s, 6, 7)),
          d |-> ToInt(SubSeq(s, 9, 10))]
    ELSE NoDate

\* _date
MapDate(iso) ==
    LET dt == fromisoformat(ReplaceZ(StrOf(iso))) IN
    IF dt.ok THEN isoformat(dt) ELSE <<>>

\* parse_from_jsonld: a mapping from PartialKeys to str, or {} for a non-dict
parse_from_jsonld(jobposting_obj) ==
    IF jobposting_obj.t # "dict" THEN [k \in {} |-> EmptyStr]
    ELSE [k \in PartialKeys |->
            PyStr(CASE k = "title"       -> _as_text(DictGet(jobposting_obj.d, "title"))
                    [] k = "company"     -> GetCompany(jobposting_obj)
                    [] k = "location"    -> GetLocation(jobposting_obj)
                    [] k = "salary"      -> GetSalary(jobposting_obj)
                    [] k = "posted_date" ->
                         MapDate(IF DictHas(jobposting_obj.d, "datePosted")
                                 THEN DictGet(jobposting_obj.d, "datePosted")
                                 ELSE EmptyStr)
                    [] k = "deadline"    ->
                         MapDate(IF DictHas(jobposting_obj.d, "validThrough")
                                 THEN DictGet(jobposting_obj.d, "validThrough")
                                 ELSE EmptyStr)
                    [] OTHER             ->
                         _as_text(DictGet(jobposting_obj.d, "employmentType")))]

-----------------------------------------------------------------------------
(* The normalizer *)

Keys == {"source", "url", "company", "title", "location", "salary",
         "posted_date", "deadline", "job_type", "experience_level",
         "notes", "status"}

DateKeys == {"posted_date", "deadline"}

\* _normalize_date on text
NormalizeDateText(s0) ==
    LET s == strip(s0) IN
    IF s = <<>> THEN <<>>
    ELSE IF IsoShape(s) THEN s
    ELSE IF strptime(s, AbbrNames).ok THEN isoformat(strptime(s, AbbrNames))
    ELSE IF strptime(s, FullNames).ok THEN isoformat(strptime(s, FullNames))
    ELSE <<>>

\* (s or "").strip() raises AttributeError on a truthy value that is no str
NormalizeDateRaises(v) == Truthy(v) /\ v.t # "str"

\* _normalize_date: the value returned where it does not raise
_normalize_date(v) == PyStr(NormalizeDateText(PyOr(v, EmptyStr).s))

NoRecord == [k \in Keys |-> PyNone]
Returned(rec) == [ok |-> TRUE, exc |-> "", rec |-> rec]
Raised(exc)   == [ok |-> FALSE, exc |-> exc, rec |-> NoRecord]
\* no outcome yet
NotCalled     == [ok |-> FALSE, exc |-> "not called", rec |-> NoRecord]

\* out = {k: (raw.get(k, "") or "") for k in keys}, then the strings trimmed
Defaulted(raw) ==
    [k \in Keys |->
        LET v == PyOr(MapGet(raw, k, EmptyStr), EmptyStr) IN
        IF v.t = "str" THEN PyStr(strip(v.s)) ELSE v]

normalize_job_record(raw) ==
    LET out == Defaulted(raw) IN
    IF \E dk \in DateKeys : NormalizeDateRaises(out[dk])
    THEN Raised("AttributeError")
    ELSE Returned([k \in Keys |->
                     IF k \in DateKeys THEN _normalize_date(out[k]) ELSE out[k]])


-----------------------------------------------------------------------------
(* The orchestrator, build_job_from_url, line by line *)

\* what BeautifulSoup makes of the empty text
EmptyPage ==
    [rejected |-> FALSE, blocks |-> <<>>, title |-> PyNone, ogTitle |-> PyNone,
     ogSite |-> PyNone, metaDesc |-> PyNone]

\* the record as first assembled
BaseRecord(url, final_url) ==
    [k \in Keys |->
        CASE k = "source" -> PyStr(<<"U","R","L">>)
          [] k = "url"    -> PyOr(final_url, url)
          [] k = "status" -> PyStr(<<"S","a","v","e","d">>)
          [] OTHER        -> EmptyStr]

\* f"{type(e).__name__}: {e}"
ErrorText(name, message) == name \o <<":", " ">> \o message

\* a note that holds the error text alone
FetchErrorNoteBare(fetch_err) == fetch_err

\* f"Fetch error: {fetch_err}"
FetchErrorNote(fetch_err) ==
    PyStr(<<"F","e","t","c","h"," ","e","r","r","o","r",":"," ">> \o StrOf(fetch_err))

\* the condition with "and" in place of "or"
NeedsFallbackEither(parsed) ==
    ~(Truthy(MapGet(parsed, "title", PyNone)) /\ Truthy(MapGet(parsed, "company", PyNone)))

\* not (parsed.get("title") or parsed.get("company"))
NeedsFallback(parsed) ==
    ~Truthy(PyOr(MapGet(parsed, "title", PyNone), MapGet(parsed, "company", PyNone)))

\* the line reached after the fetch when the error is not looked at
AfterFetchUnchecked(fetch_err) == "extract"

\* if fetch_err: ... return
AfterFetch(fetch_err) == IF Truthy(fetch_err) THEN "fetch_failed" ELSE "extract"

\* record.update({k: v for k, v in parsed.items() if k in record})
Merged(record, parsed) ==
    [k \in Keys |-> IF k \in DOMAIN parsed THEN parsed[k] ELSE record[k]]

NoOrigin == [k \in Keys |-> "base"]

InitBuild(urls) ==
    /\ bpc = "start"
    /\ burl \in urls
    /\ bhtml = EmptyPage
    /\ bfinal = EmptyStr
    /\ berr = PyNone
    /\ brecord = NoRecord
    /\ bjp = PyNone
    /\ bparsed = [k \in {} |-> EmptyStr]
    /\ bresult = NotCalled
    /\ bcalls = <<>>
    /\ borigin = NoOrigin

IdleBuild ==
    /\ bpc = "idle"
    /\ burl = EmptyStr
    /\ bhtml = EmptyPage
    /\ bfinal = EmptyStr
    /\ berr = PyNone
    /\ brecord = NoRecord
    /\ bjp = PyNone
    /\ bparsed = [k \in {} |-> EmptyStr]
    /\ bresult = NotCalled
    /\ bcalls = <<>>
    /\ borigin = NoOrigin

\* line 284, fetch_html returning (resp.text, str(resp.url), None), and the
\* record of lines 285-298
FetchOk(pages, redirects) ==
    /\ bpc = "start"
    /\ \E page \in pages, final_url \in {burl} \cup redirects :
          /\ bhtml' = page
          /\ bfinal' = final_url
          /\ berr' = PyNone
          /\ brecord' = BaseRecord(burl, final_url)
          /\ bpc' = AfterFetch(PyNone)
    /\ bcalls' = Append(bcalls, "fetch_html")
    /\ UNCHANGED <<burl, bjp, bparsed, bresult, borigin, notBuild>>

\* line 284, fetch_html catching an exception of requests.get or
\* raise_for_status and returning ("", url, "<name>: <message>")
FetchFails(errors) ==
    /\ bpc = "start"
    /\ \E e \in errors :
          /\ bhtml' = EmptyPage
          /\ bfinal' = burl
          /\ berr' = PyStr(ErrorText(e.name, e.message))
          /\ brecord' = BaseRecord(burl, burl)
          /\ bpc' = AfterFetch(PyStr(ErrorText(e.name, e.message)))
    /\ bcalls' = Append(bcalls, "fetch_html")
    /\ UNCHANGED <<burl, bjp, bparsed, bresult, borigin, notBuild>>

\* lines 299-301: the note, normalize, return
ReturnFetchError ==
    /\ bpc = "fetch_failed"
    /\ brecord' = [brecord EXCEPT !["notes"] = FetchErrorNote(berr)]
    /\ borigin' = [borigin EXCEPT !["notes"] = "fetch_error"]
    /\ bresult' = normalize_job_record(brecord')
    /\ bcalls' = Append(bcalls, "normalize_job_record")
    /\ bpc' = "done"
    /\ UNCHANGED <<burl, bhtml, bfinal, berr, bjp, bparsed, notBuild>>

\* line 303
ExtractPosting ==
    /\ bpc = "extract"
    /\ bjp' = extract_jsonld_jobposting(bhtml)
    /\ bcalls' = Append(bcalls, "extract_jsonld_jobposting")
    /\ bpc' = "map"
    /\ UNCHANGED <<burl, bhtml, bfinal, berr, brecord, bparsed, bresult, borigin,
                   notBuild>>

\* lines 304-306 with a posting found
MapPosting ==
    /\ bpc = "map"
    /\ Truthy(bjp)
    /\ bparsed' = parse_from_jsonld(bjp)
    /\ bcalls' = Append(bcalls, "parse_from_jsonld")
    /\ bpc' = "fallback"
    /\ UNCHANGED <<burl, bhtml, bfinal, berr, brecord, bjp, bresult, borigin,
                   notBuild>>

\* lines 304-305 with no posting: parsed stays {}
SkipMapper ==
    /\ bpc = "map"
    /\ ~Truthy(bjp)
    /\ bparsed' = [k \in {} |-> EmptyStr]
    /\ bpc' = "fallback"
    /\ UNCHANGED <<burl, bhtml, bfinal, berr, brecord, bjp, bresult, bcalls,
                   borigin, notBuild>>

\* lines 307-308 and 310: the fallback replaces parsed, which is merged
FallbackAndMerge ==
    /\ bpc = "fallback"
    /\ NeedsFallback(bparsed)
    /\ bparsed' = parse_generic_meta(bhtml)
    /\ bcalls' = Append(bcalls, "parse_generic_meta")
    /\ brecord' = Merged(brecord, bparsed')
    /\ borigin' = [k \in Keys |-> IF k \in DOMAIN bparsed' THEN "generic"
                                  ELSE borigin[k]]
    /\ bpc' = "infer"
    /\ UNCHANGED <<burl, bhtml, bfinal, berr, bjp, bresult, notBuild>>

\* lines 307 and 310: the mapper's parsed is merged
MergeMapped ==
    /\ bpc = "fallback"
    /\ ~NeedsFallback(bparsed)
    /\ brecord' = Merged(brecord, bparsed)
    /\ borigin' = [k \in Keys |-> IF k \in DOMAIN bparsed THEN "mapper"
                                  ELSE borigin[k]]
    /\ bpc' = "infer"
    /\ UNCHANGED <<burl, bhtml, bfinal, berr, bjp, bparsed, bresult, bcalls,
                   notBuild>>

\* lines 311-313 with job_type still empty
InferBoth ==
    /\ bpc = "infer"
    /\ ~Truthy(brecord["job_type"])
    /\ brecord' = [brecord EXCEPT
          !["experience_level"] = PyStr(infer_experience_level(brecord["title"], PyNone)),
          !["job_type"] = PyStr(infer_job_type(brecord["title"]))]
    /\ borigin' = [borigin EXCEPT !["experience_level"] = "inferred",
                                  !["job_type"] = "inferred"]
    /\ bcalls' = bcalls \o <<"infer_experience_level", "infer_job_type">>
    /\ bpc' = "normalize"
    /\ UNCHANGED <<burl, bhtml, bfinal, berr, bjp, bparsed, bresult, notBuild>>

\* lines 311-312 with job_type set
InferLevelOnly ==
    /\ bpc = "infer"
    /\ Truthy(brecord["job_type"])
    /\ brecord' = [brecord EXCEPT
          !["experience_level"] = PyStr(infer_experience_level(brecord["title"], PyNone))]
    /\ borigin' = [borigin EXCEPT !["experience_level"] = "inferred"]
    /\ bcalls' = Append(bcalls, "infer_experience_level")
    /\ bpc' = "normalize"
    /\ UNCHANGED <<burl, bhtml, bfinal, berr, bjp, bparsed, bresult, notBuild>>

\* line 314
NormalizeAndReturn ==
    /\ bpc = "normalize"
    /\ bresult' = normalize_job_record(brecord)
    /\ bcalls' = Append(bcalls, "normalize_job_record")
    /\ bpc' = "done"
    /\ UNCHANGED <<burl, bhtml, bfinal, berr, brecord, bjp, bparsed, borigin,
                   notBuild>>

-----------------------------------------------------------------------------
(* Inputs of the normalizer *)

\* month words: right and wrong, in mixed case
MonthWords == {
    <<"J","a","n">>,
    <<"f","e","b">>,
    <<"F","E","B">>,
    <<"F","e","b","r","u","a","r","y">>,
    <<"S","e","p","t">>,
    <<"M","a","y">>,
    <<"A","p","r">>,
    <<"d","e","c","e","m","b","e","r">>
    }
DayTexts  == {<<"5">>, <<"0","5">>, <<"2","9">>, <<"3","0">>, <<"3","1">>, <<"3","2">>, <<"0">>}
YearTexts == {<<"2","0","2","4">>, <<"2","0","2","3">>, <<"1","9","0","0">>, <<"2","0","0","0">>, <<"0","0","0","0">>, <<"2","4">>}
MonthNums == {<<"0","1">>, <<"0","2">>, <<"1","2">>, <<"1","3">>, <<"0","0">>, <<"1">>}
DayNums   == {<<"0","5">>, <<"2","9">>, <<"3","0">>, <<"3","1">>, <<"3","2">>, <<"0","0">>, <<"5">>}
Gaps      == {<<>>, <<" ">>, <<" ", " ">>}

\* "Mon D, YYYY"-like text
TextDates ==
    {m \o g1 \o d \o <<",">> \o g2 \o y :
        m \in MonthWords, g1 \in Gaps, d \in DayTexts, g2 \in {<<>>, <<" ">>},
        y \in YearTexts}

\* "YYYY-MM-DD"-like text
IsoLikeDates ==
    {y \o <<"-">> \o m \o <<"-">> \o d :
        y \in YearTexts, m \in MonthNums, d \in DayNums}

OtherDateTexts == {
    <<>>,
    <<" ", "\t">>,
    <<" ","2","0","2","4","-","0","1","-","0","5","\n">>,
    <<"\t","M","a","r"," ","7",","," ","2","0","2","1"," ">>,
    <<"t","o","m","o","r","r","o","w">>,
    <<"0","1","/","0","5","/","2","0","2","4">>,
    <<"2","0","2","4","-","0","1","-","0","5","T","0","0",":","0","0",":","0","0","Z">>,
    <<"M","a","r","c","h"," ","7",","," ","2","0","2","1"," ","x">>
    }

DateTexts == TextDates \cup IsoLikeDates \cup OtherDateTexts

\* values of every Python type a caller's mapping may hold
OtherValues == {
    PyNone, PyInt(0), PyInt(5), EmptyStr,
    PyStr(<<" ", " ">>),
    PyStr(<<" ","A","c","m","e"," ">>),
    PyStr(<<"A","c","m","e">>),
    PyList(<<>>),
    PyList(<<PyStr(<<" ","a"," ">>)>>),
    PyDict(<<>>),
    PyDict(<<[k |-> "name", v |-> PyStr(<<"A","c","m","e">>)]>>)
    }

\* a complete record of strings, as build_job_from_url assembles it
FullRaw ==
    [k \in Keys |->
        CASE k = "source" -> PyStr(<<"U","R","L">>)
          [] k = "status" -> PyStr(<<"S","a","v","e","d">>)
          [] k = "title"  -> PyStr(<<" ","D","e","v"," ">>)
          [] OTHER        -> EmptyStr]

\* a mapping with no key at all
EmptyRaw == [k \in {} |-> PyNone]

\* a mapping with keys missing, null values and a key that is not canonical
SparseRaw ==
    [k \in {"url", "company", "deadline", "id"} |->
        CASE k = "url" -> PyStr(<<"u">>)
          [] k = "id"  -> PyInt(7)
          [] OTHER     -> PyNone]

BaseRaws == {FullRaw, EmptyRaw, SparseRaw}

\* raw with raw[key] = v
With(raw, key, v) ==
    [k \in DOMAIN raw \cup {key} |-> IF k = key THEN v ELSE raw[k]]

RawInputs ==
    {With(b, k, v) : b \in BaseRaws, k \in Keys \cup {"extra"}, v \in OtherValues}
    \cup {With(b, k, PyStr(s)) : b \in BaseRaws, k \in DateKeys, s \in DateTexts}

-----------------------------------------------------------------------------
(* The normalizer applied to an input, and again to its own output *)

InitNorm ==
    /\ npc = "call"
    /\ nraw \in RawInputs
    /\ nres = NotCalled
    /\ nres2 = NotCalled

\* the harness at rest, while another component is exercised
IdleNorm ==
    /\ npc = "idle"
    /\ nraw = EmptyRaw
    /\ nres = NotCalled
    /\ nres2 = NotCalled

\* normalize_job_record(raw)
Normalize ==
    /\ npc = "call"
    /\ nres' = normalize_job_record(nraw)
    /\ npc' = "once"
    /\ UNCHANGED <<nraw, nres2, notNorm>>

\* normalize_job_record(normalize_job_record(raw)): the outer call runs on the
\* record the inner call returned
NormalizeAgain ==
    /\ npc = "once"
    /\ nres.ok
    /\ nres2' = normalize_job_record(nres.rec)
    /\ npc' = "twice"
    /\ UNCHANGED <<nraw, nres, notNorm>>

NextNorm == Normalize \/ NormalizeAgain


-----------------------------------------------------------------------------
(* Inputs of the experience-level classifier *)

MaxTitleWords == 2

\* words that hold keywords of every level, in mixed case, words that hold one
\* only as a substring, halves of two-word keywords, and words that hold none
Vocabulary == {
    <<"I","n","t","e","r","n">>,
    <<"I","N","T","E","R","N","S","H","I","P">>,
    <<"i","n","t","e","r","n","a","t","i","o","n","a","l">>,
    <<"C","o">>,
    <<"o","p">>,
    <<"c","o","o","p">>,
    <<"N","e","w">>,
    <<"g","r","a","d">>,
    <<"n","e","w","-","g","r","a","d">>,
    <<"E","n","t","r","y">>,
    <<"l","e","v","e","l">>,
    <<"J","r",".">>,
    <<"j","u","n","i","o","r">>,
    <<"S","r">>,
    <<"S","E","N","I","O","R">>,
    <<"S","t","a","f","f">>,
    <<"l","e","a","d","e","r">>,
    <<"e","n","g","i","n","e","e","r">>
    }

RECURSIVE JoinWords(_)
JoinWords(ws) ==
    IF ws = <<>> THEN <<>>
    ELSE IF Len(ws) = 1 THEN ws[1]
    ELSE ws[1] \o <<" ">> \o JoinWords(Tail(ws))

Titles ==
    {JoinWords(ws) : ws \in UNION {[1..n -> Vocabulary] : n \in 0..MaxTitleWords}}

\* None, "", and words that complete a keyword begun in the title or hold one
DescriptionWords == {
    <<>>,
    <<"g","r","a","d">>,
    <<"o","p">>,
    <<"l","e","v","e","l">>,
    <<"I","n","t","e","r","n">>,
    <<"S","E","N","I","O","R">>,
    <<"e","n","g","i","n","e","e","r">>
    }

Descriptions == {PyNone} \cup {PyStr(w) : w \in DescriptionWords}

InitInfer ==
    /\ ipc = "call"
    /\ ititle \in {PyStr(t) : t \in Titles}
    /\ idesc \in Descriptions
    /\ ilevel = <<>>

IdleInfer ==
    /\ ipc = "idle"
    /\ ititle = EmptyStr
    /\ idesc = PyNone
    /\ ilevel = <<>>

\* infer_experience_level(title_text, description_text)
InferLevel ==
    /\ ipc = "call"
    /\ ilevel' = infer_experience_level(ititle, idesc)
    /\ ipc' = "done"
    /\ UNCHANGED <<ititle, idesc, notInfer>>

NextInfer == InferLevel

-----------------------------------------------------------------------------
(* Inputs of the structured-data extractor *)

MaxBlocks == 2

Item(key, v) == [k |-> key, v |-> v]

\* a JobPosting object told from every other by its title: block i, name c
Posting(i, c) ==
    PyDict(<<Item("@type", JobPostingType), Item("title", PyStr(Dec(i) \o <<c>>))>>)

\* an object of another type
OtherObject(i) ==
    PyDict(<<Item("@type", PyStr(<<"O","r","g","a","n","i","z","a","t","i","o","n">>)),
             Item("name", PyStr(Dec(i) \o <<"o">>))>>)

\* an object that carries only a graph
Graph(members) == PyDict(<<Item("@graph", PyList(members))>>)

\* the shapes the i-th ld+json block of a document may take
BlockShapes(i) == {
    EmptyBlock,
    MalformedBlock,
    JsonBlock(Posting(i, "a")),
    JsonBlock(OtherObject(i)),
    JsonBlock(PyStr(<<"J","o","b","P","o","s","t","i","n","g">>)),
    JsonBlock(PyList(<<Posting(i, "a"), Posting(i, "b")>>)),
    JsonBlock(PyList(<<PyInt(5), OtherObject(i), Posting(i, "b")>>)),
    JsonBlock(PyList(<<PyList(<<Posting(i, "n")>>)>>)),
    JsonBlock(Graph(<<OtherObject(i), Posting(i, "g"), Posting(i, "h")>>)),
    JsonBlock(Graph(<<PyStr(<<"x">>), PyDict(<<>>)>>)),
    JsonBlock(Graph(<<Graph(<<Posting(i, "n")>>)>>)),
    JsonBlock(PyDict(<<Item("@graph", Posting(i, "n"))>>)),
    JsonBlock(PyDict(<<Item("@type", PyList(<<JobPostingType>>)),
                       Item("title", PyStr(Dec(i) \o <<"l">>))>>)),
    JsonBlock(PyDict(<<Item("@type", JobPostingType),
                       Item("title", PyStr(Dec(i) \o <<"s">>)),
                       Item("@graph", PyList(<<Posting(i, "g")>>))>>)),
    JsonBlock(PyList(<<Graph(<<Posting(i, "g")>>), Posting(i, "b")>>))
    }

RejectedDoc == [rejected |-> TRUE, blocks |-> <<>>]
ParsedDoc(blocks) == [rejected |-> FALSE, blocks |-> blocks]

BlockLists ==
    UNION {{bs \in [1..n -> UNION {BlockShapes(i) : i \in 1..n}] :
               \A i \in 1..n : bs[i] \in BlockShapes(i)} : n \in 0..MaxBlocks}

Docs == {RejectedDoc} \cup {ParsedDoc(bs) : bs \in BlockLists}

InitExtr ==
    /\ xpc = "call"
    /\ xdoc \in Docs
    /\ xres = PyNone

IdleExtr ==
    /\ xpc = "idle"
    /\ xdoc = RejectedDoc
    /\ xres = PyNone

\* extract_jsonld_jobposting(html_text)
Extract ==
    /\ xpc = "call"
    /\ xres' = extract_jsonld_jobposting(xdoc)
    /\ xpc' = "done"
    /\ UNCHANGED <<xdoc, notExtr>>

NextExtr == Extract

-----------------------------------------------------------------------------
(* Inputs of the orchestrator: URLs, fetch outcomes and pages *)

\* a trimmed URL, as the form submits it, and one with a space around it
Urls == {PyStr(<<"u","/","1">>), PyStr(<<" ","u","/","2"," ">>)}

\* where a redirect may lead
Redirects == {PyStr(<<"r","/","9">>)}

\* exceptions of requests.get and raise_for_status, one with an empty message
FetchErrors == {
    [name |-> <<"C","o","n","n","e","c","t","i","o","n","E","r","r","o","r">>, message |-> <<"r","e","f","u","s","e","d">>],
    [name |-> <<"T","i","m","e","o","u","t">>, message |-> <<>>],
    [name |-> <<"H","T","T","P","E","r","r","o","r">>, message |-> <<"4","0","4"," ","N","o","t"," ","F","o","u","n","d">>]
    }

Address(locality, region, country) ==
    PyDict(<<Item("address", PyDict(<<Item("addressLocality", locality),
                                     Item("addressRegion", region),
                                     Item("addressCountry", country)>>))>>)

\* the ld+json blocks of a page
LdVariants == {
    \* none
    <<>>,
    \* a malformed block, then an object of another type
    <<MalformedBlock, JsonBlock(OtherObject(2))>>,
    \* a complete posting, its deadline no calendar date
    <<JsonBlock(PyDict(<<
        Item("@type", JobPostingType),
        Item("title", PyStr(<<" ","D","e","v"," ">>)),
        Item("hiringOrganization", PyDict(<<Item("name", PyStr(<<"A","c","m","e">>))>>)),
        Item("jobLocation", PyList(<<Address(PyStr(<<"A","u","s","t","i","n">>), PyStr(<<"T","X">>), PyStr(<<"U","S">>))>>)),
        Item("baseSalary", PyDict(<<
            Item("currency", PyStr(<<"U","S","D">>)),
            Item("value", PyDict(<<Item("value", PyInt(50)),
                                   Item("unitText", PyStr(<<"H","O","U","R">>))>>))>>)),
        Item("datePosted", PyStr(<<"2","0","2","4","-","0","1","-","0","5","T","0","0",":","0","0",":","0","0","Z">>)),
        Item("validThrough", PyStr(<<"2","0","2","4","-","0","2","-","3","0">>)),
        Item("employmentType", PyStr(<<"F","U","L","L","_","T","I","M","E">>))>>))>>,
    \* a company given as text, and no title
    <<JsonBlock(PyDict(<<
        Item("@type", JobPostingType),
        Item("hiringOrganization", PyStr(<<"A","c","m","e">>)),
        Item("jobLocation", PyStr(<<"R","e","m","o","t","e">>))>>))>>,
    \* a title, and no company
    <<MalformedBlock,
      JsonBlock(Graph(<<PyDict(<<
        Item("@type", JobPostingType),
        Item("title", PyStr(<<"S","u","m","m","e","r"," ","I","n","t","e","r","n">>)),
        Item("validThrough", PyStr(<<"2","0","2","4","-","0","6","-","3","0">>))>>)>>))>>,
    \* a title that is the number 0
    <<JsonBlock(PyDict(<<
        Item("@type", JobPostingType),
        Item("title", PyInt(0)),
        Item("employmentType", PyList(<<PyStr(<<"A">>), PyStr(<<" ","B">>)>>))>>))>>,
    \* neither title nor company, every other field given
    <<JsonBlock(PyDict(<<
        Item("@type", JobPostingType),
        Item("jobLocation", Address(PyStr(<<"A","u","s","t","i","n">>), PyNone, PyStr(<<"U","S">>))),
        Item("baseSalary", PyInt(90)),
        Item("datePosted", PyStr(<<"2","0","2","4","-","0","1","-","0","5">>)),
        Item("validThrough", PyStr(<<"2","0","2","4","-","0","3","-","0","1"," ","1","2",":","3","0">>)),
        Item("employmentType", PyStr(<<"C","O","N","T","R","A","C","T","O","R">>))>>))>>,
    \* a title of white space and a null organization, with a salary
    <<JsonBlock(PyDict(<<
        Item("@type", JobPostingType),
        Item("title", PyStr(<<" ", " ">>)),
        Item("hiringOrganization", PyDict(<<Item("name", PyNone)>>)),
        Item("baseSalary", PyDict(<<Item("currency", PyStr(<<"E","U","R">>))>>))>>))>>
    }

\* the title and meta tags of a page
MetaVariants == {
    [title |-> PyNone, ogTitle |-> PyNone, ogSite |-> PyNone, metaDesc |-> PyNone],
    [title |-> PyStr(<<"t">>), ogTitle |-> PyStr(<<" ","S","e","n","i","o","r"," ","D","e","v"," ">>),
     ogSite |-> PyStr(<<"G","l","o","b","e","x">>),
     metaDesc |-> PyStr(<<"F","u","l","l","-","t","i","m","e",","," ","$","8","0",",","0","0","0"," ","p","e","r"," ","y","e","a","r">>)],
    [title |-> PyStr(<<"B","a","c","k","e","n","d"," ","E","n","g","i","n","e","e","r"," ","-"," ","A","c","m","e"," ","C","o","r","p">>), ogTitle |-> PyNone,
     ogSite |-> PyNone, metaDesc |-> PyStr(<<"p","a","y"," ","4","0"," ","-"," ","5","0","/","h","r"," ","c","o","n","t","r","a","c","t">>)],
    [title |-> PyStr(<<"J","r","."," ","D","e","v"," ","-"," ","-"," ","P","a","r","t","-","T","i","m","e"," ","-"," ","I","n","i"," ">>), ogTitle |-> PyNone,
     ogSite |-> EmptyStr, metaDesc |-> EmptyStr],
    [title |-> PyStr(<<"x">>), ogTitle |-> EmptyStr, ogSite |-> PyNone,
     metaDesc |-> PyNone]
    }

RejectedPage ==
    [rejected |-> TRUE, blocks |-> <<>>, title |-> PyNone, ogTitle |-> PyNone,
     ogSite |-> PyNone, metaDesc |-> PyNone]

Pages ==
    {RejectedPage} \cup
    {[rejected |-> FALSE, blocks |-> ld, title |-> m.title, ogTitle |-> m.ogTitle,
      ogSite |-> m.ogSite, metaDesc |-> m.metaDesc] :
        ld \in LdVariants, m \in MetaVariants}

NextBuild ==
    \/ FetchOk(Pages, Redirects)
    \/ FetchFails(FetchErrors)
    \/ ReturnFetchError
    \/ ExtractPosting
    \/ MapPosting
    \/ SkipMapper
    \/ FallbackAndMerge
    \/ MergeMapped
    \/ InferBoth
    \/ InferLevelOnly
    \/ NormalizeAndReturn

-----------------------------------------------------------------------------
(* Persistence: table jobs and the calls that write it *)

\* the control characters sanitize_for_db drops, among the characters used
ControlChars == {"\f"}

RECURSIVE DropControl(_)
DropControl(s) ==
    IF s = <<>> THEN <<>>
    ELSE IF Head(s) \in ControlChars THEN DropControl(Tail(s))
    ELSE <<Head(s)>> \o DropControl(Tail(s))

\* s[:n]
Truncate(s, n) == IF Len(s) > n THEN SubSeq(s, 1, n) ELSE s

ShortColumns == {"title", "company", "location", "job_type",
                 "experience_level", "status", "salary"}

sanitize_for_db(job) ==
    [k \in DOMAIN job |->
        LET s0 == IF job[k].t = "str" THEN job[k].s ELSE <<>>
            s1 == DropControl(s0)
            s2 == IF k = "notes" THEN Truncate(s1, 5000) ELSE s1
            s3 == IF k \in ShortColumns THEN Truncate(s2, 500) ELSE s2
        IN PyStr(strip(s3))]

\* the columns insert_job writes; the values it binds are row.get(k, "")
Cols == Keys

Vals(row) == [k \in Cols |-> IF k \in DOMAIN row THEN row[k] ELSE EmptyStr]

\* a row of the table: id INTEGER PRIMARY KEY, the written columns,
\* created_at DEFAULT CURRENT_TIMESTAMP
StoredRow(id, vals, ts) == [id |-> id, cols |-> vals, created_at |-> ts]

\* SELECT COUNT(*) FROM jobs
CountJobs(t) == Cardinality(t)

\* the rowid of a new row: one more than the largest in the table
NextRowId(t) ==
    IF t = {} THEN 1
    ELSE (CHOOSE r \in t : \A q \in t : q.id <= r.id).id + 1

\* url TEXT UNIQUE: a row with this url exists (NULL equals nothing)
UrlStored(t, url) == url.t # "none" /\ \E r \in t : r.cols["url"] = url

\* an insert that overwrites the row holding the url
InsertOrReplace(t, vals, ts) ==
    {r \in t : ~(vals["url"].t # "none" /\ r.cols["url"] = vals["url"])}
        \cup {StoredRow(NextRowId(t), vals, ts)}

\* an insert without the uniqueness constraint
InsertUnchecked(t, vals, ts) == t \cup {StoredRow(NextRowId(t), vals, ts)}

\* INSERT OR IGNORE INTO jobs (...) VALUES (...)
InsertOrIgnore(t, vals, ts) ==
    IF UrlStored(t, vals["url"]) THEN t
    ELSE t \cup {StoredRow(NextRowId(t), vals, ts)}

DuplicateReason == "duplicate URL (ignored)"
IgnoredReason == "ignored (likely schema mismatch or constraint)"
NotFoundReason == "id not found"
NoReason == "None"

DbReturn(ok, reason) == [ok |-> ok, reason |-> reason]

\* insert_job as one session runs it: the table it leaves and what it returns
insert_job(t, row, ts) ==
    LET vals == Vals(row)
        before == CountJobs(t)
        t2 == InsertOrIgnore(t, vals, ts)
        after == CountJobs(t2)
        url == IF "url" \in DOMAIN row THEN row["url"] ELSE EmptyStr
        dup == \E r \in t2 : r.cols["url"] = url
    IN [table |-> t2,
        ret |-> IF after > before THEN DbReturn(TRUE, NoReason)
                ELSE IF dup THEN DbReturn(FALSE, DuplicateReason)
                ELSE DbReturn(FALSE, IgnoredReason)]

\* delete_job as one session runs it
delete_job(t, job_id) ==
    LET t2 == {r \in t : r.id # job_id}
        rowcount == Cardinality(t) - Cardinality(t2)
    IN [table |-> t2,
        ret |-> IF rowcount > 0 THEN DbReturn(TRUE, NoReason)
                ELSE DbReturn(FALSE, NotFoundReason)]

\* x LIKE pattern, as SQLite compares text: % stands for any run of
\* characters, _ for any one character, letters match in either case
RECURSIVE Like(_, _)
Like(x, pattern) ==
    IF pattern = <<>> THEN x = <<>>
    ELSE IF Head(pattern) = "%"
         THEN Like(x, Tail(pattern)) \/ (x # <<>> /\ Like(Tail(x), pattern))
    ELSE IF x = <<>> THEN FALSE
    ELSE IF Head(pattern) = "_" THEN Like(Tail(x), Tail(pattern))
    ELSE LowerCh(Head(x)) = LowerCh(Head(pattern)) /\ Like(Tail(x), Tail(pattern))

\* AND (company LIKE ? OR title LIKE ? OR url LIKE ?) with s = f"%{search}%"
SearchClause(r, search) ==
    search # <<>> =>
        \E k \in {"company", "title", "url"} :
            Like(r.cols[k].s, <<"%">> \o search \o <<"%">>)

\* AND status IN (?, ...)
StatusClause(r, statuses) ==
    statuses # <<>> =>
        \E i \in 1..Len(statuses) : r.cols["status"].s = statuses[i]

\* the order with the oldest row first
OldestFirst(r, q) ==
    \/ r.created_at < q.created_at
    \/ r.created_at = q.created_at /\ r.id < q.id

\* ORDER BY created_at DESC, id DESC: r comes before q
NewestFirst(r, q) ==
    \/ r.created_at > q.created_at
    \/ r.created_at = q.created_at /\ r.id > q.id

\* the rows of a result set in the order of the query
RECURSIVE Ordered(_)
Ordered(rows) ==
    IF rows = {} THEN <<>>
    ELSE LET first == CHOOSE r \in rows :
                          \A q \in rows \ {r} : NewestFirst(r, q)
         IN <<first>> \o Ordered(rows \ {first})

list_jobs(t, search, statuses) ==
    Ordered({r \in t : SearchClause(r, search) /\ StatusClause(r, statuses)})

\* how many calls and how many clock ticks a run holds
MaxCalls == 4
MaxTime == 2

\* the records the form hands over for saving
JobRecord(url, title) ==
    [k \in Keys |->
        CASE k = "source" -> PyStr(<<"U","R","L">>)
          [] k = "url" -> url
          [] k = "title" -> title
          [] k = "status" -> PyStr(<<"S","a","v","e","d">>)
          [] OTHER -> EmptyStr]

DbUrls == {PyStr(<<"u","/","1">>), PyStr(<<"u","/","\f","1">>), PyStr(<<"u","/","2">>), EmptyStr}

DbTitles == {PyStr(<<"D","e","v">>), PyStr(<<"Q","A"," ">>)}

DbRecords == {JobRecord(u, t) : u \in DbUrls, t \in DbTitles}

\* the ids the delete dialog may be given
JobIds == 1..3

\* the table ensure_db leaves, and no call made yet
InitDb ==
    /\ jobs = {}
    /\ now = 0
    /\ dbn = 0
    /\ dbop = "none"
    /\ dbrow = Vals(<<>>)
    /\ dbid = 0
    /\ dbret = DbReturn(FALSE, NoReason)
    /\ dbseq = <<>>
    /\ dbsearch = <<>>
    /\ dbstatuses = <<>>
    /\ dblist = <<>>

\* the form is submitted: insert_job(sanitize_for_db(record))
InsertJob(records) ==
    /\ dbn < MaxCalls
    /\ \E record \in records :
        LET row == sanitize_for_db(record)
            out == insert_job(jobs, row, now)
        IN /\ jobs' = out.table
           /\ dbret' = out.ret
           /\ dbrow' = row
           /\ dbseq' = IF out.ret.ok THEN Append(dbseq, NextRowId(jobs))
                        ELSE dbseq
    /\ dbop' = "insert"
    /\ dbn' = dbn + 1
    /\ dbsearch' = <<>> /\ dbstatuses' = <<>> /\ dblist' = <<>>
    /\ UNCHANGED <<now, dbid, notDb>>

\* the delete button is pressed: delete_job(int(del_id))
DeleteJob(ids) ==
    /\ dbn < MaxCalls
    /\ \E job_id \in ids :
        LET out == delete_job(jobs, job_id)
        IN /\ jobs' = out.table
           /\ dbret' = out.ret
           /\ dbid' = job_id
           /\ dbseq' = SelectSeq(dbseq, LAMBDA i : i # job_id)
    /\ dbop' = "delete"
    /\ dbn' = dbn + 1
    /\ dbsearch' = <<>> /\ dbstatuses' = <<>> /\ dblist' = <<>>
    /\ UNCHANGED <<now, dbrow, notDb>>

\* a second passes
Tick ==
    /\ now < MaxTime
    /\ now' = now + 1
    /\ UNCHANGED <<jobs, dbn, dbop, dbrow, dbid, dbret, dbseq, dbsearch,
                   dbstatuses, dblist, notDb>>

\* the listing is shown: list_jobs(search=f_search, statuses=f_status)
ListJobs(searches, filters) ==
    /\ \E search \in searches, statuses \in filters :
        /\ dblist' = list_jobs(jobs, search, statuses)
        /\ dbsearch' = search
        /\ dbstatuses' = statuses
    /\ dbop' = "list"
    /\ UNCHANGED <<jobs, now, dbn, dbrow, dbid, dbret, dbseq, notDb>>

NextDb ==
    \/ InsertJob(DbRecords)
    \/ DeleteJob(JobIds)
    \/ Tick

\* the records saved before a listing, the texts typed into the search box and
\* the statuses picked in the filter
ListRecords == {JobRecord(PyStr(<<"u","/","1">>), PyStr(<<"D","e","v">>)),
                JobRecord(PyStr(<<"u","/","2">>), PyStr(<<"Q","A","_">>))}

Searches == {<<>>, <<"D","E","V">>, <<"_">>}

StatusFilters == {<<>>, <<<<"A","p","p","l","i","e","d">>>>, <<<<"A","p","p","l","i","e","d">>, <<"S","a","v","e","d">>>>}

NextList ==
    \/ InsertJob(ListRecords)
    \/ DeleteJob(JobIds)
    \/ Tick
    \/ ListJobs(Searches, StatusFilters)

-----------------------------------------------------------------------------
(* Sessions writing the table at the same time: insert_job statement by    *)
(* statement.  Each call opens its own connection; the INSERT and its      *)
(* commit hold the write lock and are one step, the two counts and the     *)
(* duplicate lookup are statements of their own, and delete_job is one     *)
(* DELETE with its commit.                                                 *)

\* how many sessions there are
MaxSessions == 2

Sessions == 1..MaxSessions

\* no session has called yet
IdleConc ==
    /\ spc = [s \in Sessions |-> "idle"]
    /\ srow = [s \in Sessions |-> Vals(<<>>)]
    /\ sbefore = [s \in Sessions |-> 0]
    /\ sadded = [s \in Sessions |-> FALSE]
    /\ signored = [s \in Sessions |-> FALSE]
    /\ sret = [s \in Sessions |-> DbReturn(FALSE, NoReason)]

\* lines 388-390: vals, and before = SELECT COUNT(*)
BeginInsert(records) ==
    /\ dbn < MaxCalls
    /\ \E s \in Sessions, record \in records :
        /\ spc[s] \in {"idle", "done"}
        /\ spc' = [spc EXCEPT ![s] = "counted"]
        /\ srow' = [srow EXCEPT ![s] = sanitize_for_db(record)]
        /\ sbefore' = [sbefore EXCEPT ![s] = CountJobs(jobs)]
        /\ sadded' = [sadded EXCEPT ![s] = FALSE]
        /\ signored' = [signored EXCEPT ![s] = FALSE]
    /\ dbn' = dbn + 1
    /\ UNCHANGED <<jobs, now, dbop, dbrow, dbid, dbret, dbseq, dbsearch,
                   dbstatuses, dblist, sret, notConc>>

\* lines 391-396: INSERT OR IGNORE, commit
DoInsert ==
    /\ \E s \in Sessions :
        /\ spc[s] = "counted"
        /\ jobs' = InsertOrIgnore(jobs, Vals(srow[s]), now)
        /\ sadded' = [sadded EXCEPT ![s] = jobs' # jobs]
        /\ signored' = [signored EXCEPT ![s] = UrlStored(jobs, Vals(srow[s])["url"])]
        /\ dbseq' = IF jobs' # jobs THEN Append(dbseq, NextRowId(jobs)) ELSE dbseq
        /\ spc' = [spc EXCEPT ![s] = "committed"]
    /\ UNCHANGED <<now, dbn, dbop, dbrow, dbid, dbret, dbsearch, dbstatuses,
                   dblist, srow, sbefore, sret, notConc>>

\* lines 397-399: after = SELECT COUNT(*); if after > before: return True, None
CountAfter ==
    /\ \E s \in Sessions :
        /\ spc[s] = "committed"
        /\ LET after == CountJobs(jobs) IN
           IF after > sbefore[s]
           THEN /\ sret' = [sret EXCEPT ![s] = DbReturn(TRUE, NoReason)]
                /\ spc' = [spc EXCEPT ![s] = "done"]
           ELSE /\ sret' = sret
                /\ spc' = [spc EXCEPT ![s] = "lookup"]
    /\ UNCHANGED <<dbVars, srow, sbefore, sadded, signored, notConc>>

\* lines 401-405: SELECT 1 FROM jobs WHERE url = ?, and the reason returned
LookupDuplicate ==
    /\ \E s \in Sessions :
        /\ spc[s] = "lookup"
        /\ LET url == IF "url" \in DOMAIN srow[s] THEN srow[s]["url"]
                      ELSE EmptyStr
               dup == \E r \in jobs : r.cols["url"] = url
           IN sret' = [sret EXCEPT ![s] =
                          IF dup THEN DbReturn(FALSE, DuplicateReason)
                          ELSE DbReturn(FALSE, IgnoredReason)]
        /\ spc' = [spc EXCEPT ![s] = "done"]
    /\ UNCHANGED <<dbVars, srow, sbefore, sadded, signored, notConc>>

\* a session between calls deletes: lines 411-412, DELETE and commit
SessionDelete(ids) ==
    /\ dbn < MaxCalls
    /\ \E s \in Sessions, job_id \in ids :
        /\ spc[s] \in {"idle", "done"}
        /\ jobs' = delete_job(jobs, job_id).table
        /\ dbseq' = SelectSeq(dbseq, LAMBDA i : i # job_id)
        /\ spc' = [spc EXCEPT ![s] = "idle"]
    /\ dbn' = dbn + 1
    /\ UNCHANGED <<now, dbop, dbrow, dbid, dbret, dbsearch, dbstatuses, dblist,
                   srow, sbefore, sadded, signored, sret, notConc>>

NextConc ==
    \/ BeginInsert(ListRecords)
    \/ DoInsert
    \/ CountAfter
    \/ LookupDuplicate
    \/ SessionDelete(JobIds)

-----------------------------------------------------------------------------
(* Specifications: one component exercised, the others at rest *)

InitSpecNorm == InitNorm /\ IdleInfer /\ IdleExtr /\ IdleBuild /\ InitDb /\ IdleConc
SpecNorm == InitSpecNorm /\ [][NextNorm]_vars

InitSpecInfer == InitInfer /\ IdleNorm /\ IdleExtr /\ IdleBuild /\ InitDb /\ IdleConc
SpecInfer == InitSpecInfer /\ [][NextInfer]_vars

InitSpecExtr == InitExtr /\ IdleNorm /\ IdleInfer /\ IdleBuild /\ InitDb /\ IdleConc
SpecExtr == InitSpecExtr /\ [][NextExtr]_vars

InitSpecBuild == InitBuild(Urls) /\ IdleNorm /\ IdleInfer /\ IdleExtr /\ InitDb /\ IdleConc
SpecBuild == InitSpecBuild /\ [][NextBuild]_vars

InitSpecDb == InitDb /\ IdleNorm /\ IdleInfer /\ IdleExtr /\ IdleBuild /\ IdleConc
SpecDb == InitSpecDb /\ [][NextDb]_vars

InitSpecList == InitDb /\ IdleNorm /\ IdleInfer /\ IdleExtr /\ IdleBuild /\ IdleConc
SpecList == InitSpecList /\ [][NextList]_vars

InitSpecConc == InitDb /\ IdleConc /\ IdleNorm /\ IdleInfer /\ IdleExtr /\ IdleBuild
SpecConc == InitSpecConc /\ [][NextConc]_vars

-----------------------------------------------------------------------------
(* The claims *)

\* a real calendar date written YYYY-MM-DD: a month in 01..12 and a day that
\* exists in that month
ValidIsoDate(s) ==
    /\ IsoShape(s)
    /\ ToInt(SubSeq(s, 6, 7)) \in 1..12
    /\ ToInt(SubSeq(s, 9, 10)) \in
           1..DaysInMonth(ToInt(SubSeq(s, 1, 4)), ToInt(SubSeq(s, 6, 7)))

\* C4: for every input mapping (keys missing, extra keys, null values, values
\* that are numbers or lists), normalize_job_record returns a record with
\* exactly the twelve canonical keys, every value a string.
C4_CanonicalStrings ==
    npc # "call" =>
        /\ nres.ok
        /\ DOMAIN nres.rec = Keys
        /\ \A k \in Keys : nres.rec[k].t = "str"

\* C5: after normalize_job_record of string inputs, posted_date and deadline
\* are each the empty string or a real calendar date in YYYY-MM-DD form.
C5_DatesEmptyOrValid ==
    (npc # "call" /\ nres.ok) =>
        \A dk \in DateKeys :
            nres.rec[dk].s = <<>> \/ ValidIsoDate(nres.rec[dk].s)

\* C9: normalize_job_record is idempotent: applied to the record it returned,
\* it returns that record again, field for field.
C9_Idempotent ==
    npc = "twice" => (nres2.ok /\ \A k \in Keys : nres2.rec[k] = nres.rec[k])

\* C9 witness: both calls were made on an input whose posted_date the first
\* call rewrote from calendar text to a non-empty ISO date.
C9_Witness ==
    /\ npc = "twice"
    /\ "posted_date" \in DOMAIN nraw
    /\ nraw["posted_date"].t = "str"
    /\ nres.rec["posted_date"].s # <<>>
    /\ nres.rec["posted_date"].s # strip(nraw["posted_date"].s)

\* the title and description as one text, compared ignoring case
ClaimText == lower(ititle.s \o <<" ">> \o (IF idesc.t = "str" THEN idesc.s ELSE <<>>))

HasKeyword(group) == \E k \in group : Contains(ClaimText, k)

InternKeys == {<<"i","n","t","e","r","n">>, <<"i","n","t","e","r","n","s","h","i","p">>, <<"c","o","-","o","p">>, <<"c","o"," ","o","p">>, <<"c","o","o","p">>}
NewGradKeys == {<<"n","e","w"," ","g","r","a","d">>, <<"n","e","w","-","g","r","a","d">>, <<"g","r","a","d","u","a","t","e"," ","p","r","o","g","r","a","m">>}
EntryKeys == {<<"e","n","t","r","y"," ","l","e","v","e","l">>, <<"e","n","t","r","y","-","l","e","v","e","l">>, <<"j","u","n","i","o","r">>, <<"j","r",".">>}
SeniorKeys == {<<"s","e","n","i","o","r">>, <<"s","r",".">>, <<"s","t","a","f","f">>, <<"p","r","i","n","c","i","p","a","l">>, <<"l","e","a","d">>}

\* C10: infer_experience_level is case-insensitive and first match wins in
\* the order Intern, New Grad, Entry, Senior+: the result is Intern whenever
\* an Intern keyword occurs, New Grad only when no Intern keyword occurs,
\* Entry only when no Intern or New Grad keyword occurs, Senior+ only when
\* none of the three groups above occurs, and empty exactly when no keyword
\* of any group occurs.
C10_FirstMatchWins ==
    ipc = "done" =>
        /\ HasKeyword(InternKeys) => ilevel = LvIntern
        /\ ilevel = LvNewGrad => (~HasKeyword(InternKeys) /\ HasKeyword(NewGradKeys))
        /\ ilevel = LvEntry =>
               /\ ~HasKeyword(InternKeys) /\ ~HasKeyword(NewGradKeys)
               /\ HasKeyword(EntryKeys)
        /\ ilevel = LvSenior =>
               /\ ~HasKeyword(InternKeys) /\ ~HasKeyword(NewGradKeys)
               /\ ~HasKeyword(EntryKeys) /\ HasKeyword(SeniorKeys)
        /\ ilevel = <<>> <=>
               ~(\/ HasKeyword(InternKeys) \/ HasKeyword(NewGradKeys)
                 \/ HasKeyword(EntryKeys) \/ HasKeyword(SeniorKeys))
        /\ ilevel \in {LvIntern, LvNewGrad, LvEntry, LvSenior, <<>>}

\* C10 witness: the classifier returned Intern for a text that also holds a
\* New Grad keyword and a keyword in upper case.
C10_Witness ==
    /\ ipc = "done"
    /\ ilevel = LvIntern
    /\ HasKeyword(NewGradKeys)
    /\ ititle.s # lower(ititle.s)

\* an object followed by the members of its @graph array
WithGraphMembers(obj) ==
    IF obj.t = "dict" /\ DictGet(obj.d, "@graph").t = "list"
    THEN <<obj>> \o DictGet(obj.d, "@graph").items
    ELSE <<obj>>

\* the top-level candidate objects of a block whose text is well-formed JSON
TopLevel(block) ==
    CASE block.kind = "malformed" -> <<>>
      [] block.kind = "empty"     -> <<PyDict(<<>>)>>
      [] block.data.t = "list"    -> block.data.items
      [] OTHER                    -> <<block.data>>

\* document order: blocks in order, candidates in array order, each candidate
\* before the members of its @graph
DocumentOrder(doc) ==
    Concat([b \in 1..Len(doc.blocks) |->
        LET cs == TopLevel(doc.blocks[b]) IN
        Concat([c \in 1..Len(cs) |-> WithGraphMembers(cs[c])])])

TypedJobPosting(v) ==
    v.t = "dict" /\ \E i \in 1..Len(v.d) : v.d[i] = Item("@type", JobPostingType)

\* C6: extract_jsonld_jobposting returns the first object whose @type equals
\* "JobPosting" in document order (blocks in order, candidates in array
\* order, a candidate before the members of its @graph); a malformed block
\* is skipped and later blocks are still scanned; the result is None when
\* there is no such object.
C6_FirstInDocumentOrder ==
    xpc = "done" =>
        LET order == DocumentOrder(xdoc)
            hits  == {i \in 1..Len(order) : TypedJobPosting(order[i])}
        IN IF hits = {} THEN xres = PyNone
           ELSE xres = order[CHOOSE i \in hits : \A j \in hits : i <= j]

\* C6 witness: a malformed first block was skipped and the posting returned
\* is a @graph member of the second block, which holds a later posting too.
C6_Witness ==
    /\ xpc = "done"
    /\ Len(xdoc.blocks) = 2
    /\ xdoc.blocks[1].kind = "malformed"
    /\ xres = Posting(2, "g")
    /\ \E i \in 1..Len(DocumentOrder(xdoc)) : DocumentOrder(xdoc)[i] = Posting(2, "h")

\* the fetch reported an error
FetchFailed == Truthy(berr)

Called(f) == \E i \in 1..Len(bcalls) : bcalls[i] = f

TimesCalled(f) == Cardinality({i \in 1..Len(bcalls) : bcalls[i] = f})

\* what the Structured-Data path produced: the mapper's record of the posting
\* found, nothing where none was found
StructuredResult ==
    IF bjp.t = "dict" THEN parse_from_jsonld(bjp) ELSE [k \in {} |-> EmptyStr]

NonEmptyIn(m, k) == k \in DOMAIN m /\ m[k] # EmptyStr

\* C1: after a successful fetch the generic fallback runs if and only if the
\* structured-data path produced neither a non-empty title nor a non-empty
\* company (also when no posting was found); when it runs its partial record
\* is the one merged, so no field of the final record is the mapper's; when
\* it does not run every extracted field is the mapper's (job_type being
\* inferred from the title where the mapper left it empty).
C1_FallbackIffNoTitleNoCompany ==
    (bpc = "done" /\ ~FetchFailed) =>
        /\ Called("parse_generic_meta") <=>
               ~(NonEmptyIn(StructuredResult, "title")
                 \/ NonEmptyIn(StructuredResult, "company"))
        /\ Called("parse_generic_meta") =>
               /\ \A k \in PartialKeys : borigin[k] # "mapper"
               /\ \A k \in PartialKeys \ {"job_type"} : borigin[k] = "generic"
               /\ \A k \in {"title", "company", "location", "salary"} :
                      bresult.rec[k].s = strip(parse_generic_meta(bhtml)[k].s)
               /\ \A k \in DateKeys :
                      bresult.rec[k] = _normalize_date(parse_generic_meta(bhtml)[k])
        /\ ~Called("parse_generic_meta") =>
               /\ \A k \in PartialKeys \ {"job_type"} : borigin[k] = "mapper"
               /\ \/ borigin["job_type"] = "mapper"
                  \/ /\ borigin["job_type"] = "inferred"
                     /\ StructuredResult["job_type"] = EmptyStr
               /\ \A k \in {"title", "company", "location", "salary"} :
                      bresult.rec[k].s = strip(StructuredResult[k].s)
               /\ \A k \in DateKeys :
                      bresult.rec[k] = _normalize_date(StructuredResult[k])
               /\ StructuredResult["job_type"] # EmptyStr =>
                      bresult.rec["job_type"] = StructuredResult["job_type"]

\* C1 witness: a posting was found and mapped to a location but to no title
\* and no company; the fallback ran and the returned location is not the
\* mapper's.
C1_Witness ==
    /\ bpc = "done"
    /\ Called("parse_from_jsonld")
    /\ Called("parse_generic_meta")
    /\ StructuredResult["location"] # EmptyStr
    /\ bresult.rec["location"] # StructuredResult["location"]
    /\ bresult.rec["title"] # EmptyStr

\* C2: every submission performs exactly one fetch; if the fetch reports an
\* error the call returns the normalized record at once: no extractor,
\* mapper, fallback or inference runs, the fetch is not retried, and the call
\* returns rather than raises.
C2_FetchOnceFailureTerminal ==
    /\ TimesCalled("fetch_html") <= 1
    /\ bpc \notin {"idle", "start"} => TimesCalled("fetch_html") = 1
    /\ FetchFailed =>
           /\ bpc \in {"fetch_failed", "done"}
           /\ \A i \in 1..Len(bcalls) :
                  bcalls[i] \in {"fetch_html", "normalize_job_record"}
    /\ (FetchFailed /\ bpc = "done") =>
           /\ bcalls = <<"fetch_html", "normalize_job_record">>
           /\ bresult.ok

\* C2 witness: a call whose fetch failed has returned.
C2_Witness == bpc = "done" /\ FetchFailed /\ bresult.ok

\* C3 as claimed: when the fetch fails every field of the returned record
\* other than notes is the empty string and notes is not empty.
C3_AllEmptyExceptNotes ==
    (bpc = "done" /\ FetchFailed) =>
        /\ bresult.ok
        /\ \A k \in Keys \ {"notes"} : bresult.rec[k] = EmptyStr
        /\ bresult.rec["notes"] # EmptyStr

\* C3 as amended: when the fetch fails every extracted field of the returned
\* record (company, title, location, salary, posted_date, deadline,
\* job_type, experience_level) is the empty string; source is "URL", status
\* is "Saved", url is the submitted URL trimmed, and notes is a non-empty
\* text that starts with "Fetch error: ".
C3_FetchFailureRecord ==
    (bpc = "done" /\ FetchFailed) =>
        /\ bresult.ok
        /\ \A k \in Keys \ {"notes", "source", "url", "status"} :
               bresult.rec[k] = EmptyStr
        /\ bresult.rec["source"] = PyStr(<<"U","R","L">>)
        /\ bresult.rec["status"] = PyStr(<<"S","a","v","e","d">>)
        /\ bresult.rec["url"] = PyStr(strip(burl.s))
        /\ bresult.rec["notes"].t = "str"
        /\ StartsAt(bresult.rec["notes"].s, 1, <<"F","e","t","c","h"," ","e","r","r","o","r",":"," ">>)
        /\ Len(bresult.rec["notes"].s) > Len(<<"F","e","t","c","h"," ","e","r","r","o","r",":"," ">>)

\* C3 witness: a call whose fetch failed has returned a record whose url is
\* the submitted one with its surrounding white space removed.
C3_Witness ==
    /\ bpc = "done"
    /\ FetchFailed
    /\ bresult.rec["url"] # burl
    /\ bresult.rec["url"] # EmptyStr

\* C7: after any sequence of insert_job and delete_job calls from the empty
\* table no two stored rows share a url.
C7_OneRowPerUrl ==
    \A r1 \in jobs : \A r2 \in jobs :
        r1.cols["url"] = r2.cols["url"] => r1 = r2

\* C7 witness: two rows are stored, a row has been deleted, and the last call
\* offered a url that was stored and was refused.
C7_Witness ==
    /\ Cardinality(jobs) = 2
    /\ dbid # 0
    /\ dbop = "insert"
    /\ ~dbret.ok
    /\ \E r \in jobs : r.cols["url"] = dbrow["url"]

\* this step is a call of insert_job
InsertCalled == dbn' = dbn + 1 /\ dbop' = "insert"

\* C8: insert_job of a row whose url is stored returns (False, the
\* duplicate-URL reason) and leaves the table as it was, the stored row
\* keeping every value; the duplicate-URL reason differs from the other
\* rejection reason and is returned for stored urls only.
C8_DuplicateIgnored ==
    [][InsertCalled =>
          /\ UrlStored(jobs, dbrow'["url"]) =>
                 /\ dbret' = DbReturn(FALSE, DuplicateReason)
                 /\ jobs' = jobs
                 /\ CountJobs(jobs') = CountJobs(jobs)
          /\ dbret'.reason = DuplicateReason =>
                 UrlStored(jobs, dbrow'["url"])
          /\ DuplicateReason # IgnoredReason
          /\ DuplicateReason # NoReason]_vars

\* C8 witness: an insert was refused as a duplicate and the stored row of
\* that url holds a title other than the one offered.
C8_Witness ==
    /\ dbop = "insert"
    /\ dbret = DbReturn(FALSE, DuplicateReason)
    /\ \E r \in jobs :
           /\ r.cols["url"] = dbrow["url"]
           /\ r.cols["title"] # dbrow["title"]

\* the place of a stored row in the order of insertion
InsertedAt(id) == CHOOSE i \in 1..Len(dbseq) : dbseq[i] = id

HasWildcard(search) == \E i \in 1..Len(search) : search[i] \in {"%", "_"}

\* one of company, title and url holds the search text, letters in either
\* case; in a text with % or _ those stand for any run of characters and for
\* any one character, as in the LIKE pattern the text is put into
MatchesSearch(r, search) ==
    \/ search = <<>>
    \/ \E k \in {"company", "title", "url"} :
          IF HasWildcard(search)
          THEN Like(r.cols[k].s, <<"%">> \o search \o <<"%">>)
          ELSE Contains(lower(r.cols[k].s), lower(search))

MatchesStatus(r, statuses) ==
    \/ statuses = <<>>
    \/ \E i \in 1..Len(statuses) : r.cols["status"].s = statuses[i]

\* C11: after any sequence of insert_job and delete_job calls, ids reused or
\* not, list_jobs returns each stored row that matches the search text and
\* the status filter exactly once and no other row, a row inserted later
\* before every row inserted earlier.
C11_ListedNewestFirst ==
    dbop = "list" =>
        /\ {dblist[i] : i \in 1..Len(dblist)} =
               {r \in jobs : MatchesSearch(r, dbsearch)
                             /\ MatchesStatus(r, dbstatuses)}
        /\ \A i \in 1..Len(dblist) : \A j \in 1..Len(dblist) :
               i < j => InsertedAt(dblist[i].id) > InsertedAt(dblist[j].id)

\* C11 witness: the newest row was deleted, a row inserted after that took
\* its id, and a listing with a search text shows it before an older row
\* written within the same second.
C11_Witness ==
    /\ dbop = "list"
    /\ dbsearch # <<>>
    /\ Len(dblist) = 2
    /\ dblist[1].id = dbid
    /\ dblist[1].created_at = dblist[2].created_at

\* C12: under any interleaving of insert_job and delete_job calls of
\* different sessions, an insert_job call returns inserted=True if and only
\* if its own INSERT added a row, and returns the duplicate-URL reason only
\* when its own INSERT was ignored because a row with the url was stored.
C12_InsertResultAccurate ==
    \A s \in Sessions :
        spc[s] = "done" =>
            /\ sret[s].ok <=> sadded[s]
            /\ sret[s].reason = DuplicateReason => signored[s]

=============================================================================
